---- MODULE Spec2Model ----
(***************************************************************************)
(* A model of src/code/src/sparse-matrix.py: the SparseMatrix class        *)
(* (dictionary-of-keys storage, element get/set, add, subtract, multiply,  *)
(* construction from a text source).                                       *)
(*                                                                         *)
(* Python objects are modelled by reference: `heap` holds the dictionaries *)
(* (one per `self.data`), a SparseMatrix object is a record holding the    *)
(* index of its dictionary, and `mats` holds the objects the caller has    *)
(* references to, in order of creation.  A dictionary is a function from   *)
(* coordinate pairs <<row, col>> to integers.  The iteration order of a    *)
(* dictionary (insertion order in Python) is a nondeterministic choice     *)
(* among all orders of its keys: every order is the insertion order of     *)
(* some history.  Python integers are unbounded, and so are the model's.   *)
(***************************************************************************)
EXTENDS Integers, Sequences, FiniteSets, TLC

\* Bounds of the model.
MaxDim == 2        \* declared row and column counts range over 1..MaxDim
MaxVal == 1        \* stored values and set_element arguments range over -MaxVal..MaxVal
MaxNnz == 2        \* entries stored in a drawn pair of operands
MaxInner == 3      \* length of the drawn row and column vectors
MaxHeld == 1       \* entries stored in the objects drawn for set_element
MaxTriples == 2    \* body lines of a drawn text source

VARIABLES
    heap,      \* Seq of dictionaries: heap[i] is the dictionary with identity i
    mats,      \* Seq of SparseMatrix objects [data, rows, cols] held by the caller
    origin,    \* origin[i]: the call that created mats[i], as [op, self, other]
    last       \* the last call: its name, arguments and outcome

vars == <<heap, mats, origin, last>>

(***************************************************************************)
(* Dictionaries.                                                           *)
(***************************************************************************)
EmptyDict == [k \in {} |-> 0]

\* d[k] = v
DictPut(d, k, v) == [x \in (DOMAIN d) \cup {k} |-> IF x = k THEN v ELSE d[x]]

\* del d[k]
DictDel(d, k) == [x \in (DOMAIN d) \ {k} |-> d[x]]

\* Every order in which the keys of a dictionary can be visited.
RECURSIVE Orders(_)
Orders(S) ==
    IF S = {} THEN { << >> }
    ELSE UNION { { <<x>> \o s : s \in Orders(S \ {x}) } : x \in S }

(***************************************************************************)
(* Outcomes of a call: `raised` is "none" or the exception type, `heap`    *)
(* the heap after the call, `result` the returned object (NoObject when    *)
(* the call raised).                                                       *)
(***************************************************************************)
NoObject == [data |-> 0, rows |-> 0, cols |-> 0]

Raise(h) == [raised |-> "ValueError", heap |-> h, result |-> NoObject]

Return(h, obj) == [raised |-> "none", heap |-> h, result |-> obj]

(***************************************************************************)
(* SparseMatrix.__init__(num_rows, num_cols): a fresh empty dictionary.    *)
(***************************************************************************)
SparseMatrix(h, num_rows, num_cols) ==
    Return(Append(h, EmptyDict),
           [data |-> Len(h) + 1, rows |-> num_rows, cols |-> num_cols])

(***************************************************************************)
(* get_element / set_element.                                              *)
(***************************************************************************)
get_element(h, self, row, col) ==
    IF <<row, col>> \in DOMAIN h[self.data] THEN h[self.data][<<row, col>>] ELSE 0

\* A set_element that never deletes: a zero leaves the old entry in place.
set_element_keep(h, self, row, col, value) ==
    IF value # 0
    THEN [h EXCEPT ![self.data] = DictPut(@, <<row, col>>, value)]
    ELSE h

\* A set_element that stores whatever it is given, zero included.
set_element_any(h, self, row, col, value) ==
    [h EXCEPT ![self.data] = DictPut(@, <<row, col>>, value)]

set_element(h, self, row, col, value) ==
    IF value # 0
    THEN [h EXCEPT ![self.data] = DictPut(@, <<row, col>>, value)]
    ELSE IF <<row, col>> \in DOMAIN h[self.data]
         THEN [h EXCEPT ![self.data] = DictDel(@, <<row, col>>)]
         ELSE h

(***************************************************************************)
(* add(other).  The operators are set-valued: one outcome per order in     *)
(* which the two dictionaries can be visited.  The second loop's items are *)
(* taken when that loop starts, as Python evaluates other.data.items().    *)
(***************************************************************************)
\* A dimension check that forgets the column counts.
add_mismatch_rows_only(self, other) == self.rows # other.rows

add_mismatch(self, other) == self.rows # other.rows \/ self.cols # other.cols

\* result = self: the sum is accumulated into the left operand.
add_result_in_place(h, self) == Return(h, self)

add_result(h, self) == SparseMatrix(h, self.rows, self.cols)

RECURSIVE add_self_items(_, _, _, _, _)
add_self_items(h, result, self, other, ord) ==
    IF ord = << >> THEN h
    ELSE LET k == Head(ord)
             v == h[self.data][k]
         IN  add_self_items(
                 set_element(h, result, k[1], k[2], v + get_element(h, other, k[1], k[2])),
                 result, self, other, Tail(ord))

\* The second loop without its membership test: every item of other is written.
add_other_only_always(h, self, k) == TRUE

add_other_only(h, self, k) == k \notin DOMAIN h[self.data]

RECURSIVE add_other_items(_, _, _, _, _)
add_other_items(h, result, self, other, ord) ==
    IF ord = << >> THEN h
    ELSE LET k == Head(ord)
             v == h[other.data][k]
         IN  add_other_items(
                 IF add_other_only(h, self, k) THEN set_element(h, result, k[1], k[2], v) ELSE h,
                 result, self, other, Tail(ord))

add(h, self, other) ==
    IF add_mismatch(self, other) THEN { Raise(h) }
    ELSE LET new == add_result(h, self)
             after1 == { add_self_items(new.heap, new.result, self, other, ord) :
                             ord \in Orders(DOMAIN new.heap[self.data]) }
         IN  UNION { { Return(add_other_items(h1, new.result, self, other, ord), new.result) :
                           ord \in Orders(DOMAIN h1[other.data]) } : h1 \in after1 }

(***************************************************************************)
(* subtract(other).                                                        *)
(***************************************************************************)
subtract_mismatch(self, other) == self.rows # other.rows \/ self.cols # other.cols

RECURSIVE subtract_self_items(_, _, _, _, _)
subtract_self_items(h, result, self, other, ord) ==
    IF ord = << >> THEN h
    ELSE LET k == Head(ord)
             v == h[self.data][k]
         IN  subtract_self_items(
                 set_element(h, result, k[1], k[2], v - get_element(h, other, k[1], k[2])),
                 result, self, other, Tail(ord))

\* The value of an item of other alone, stored without its sign changed.
subtract_other_value_plain(v) == v

subtract_other_value(v) == -v

RECURSIVE subtract_other_items(_, _, _, _, _)
subtract_other_items(h, result, self, other, ord) ==
    IF ord = << >> THEN h
    ELSE LET k == Head(ord)
             v == h[other.data][k]
         IN  subtract_other_items(
                 IF k \notin DOMAIN h[self.data]
                 THEN set_element(h, result, k[1], k[2], subtract_other_value(v))
                 ELSE h,
                 result, self, other, Tail(ord))

subtract(h, self, other) ==
    IF subtract_mismatch(self, other) THEN { Raise(h) }
    ELSE LET new == SparseMatrix(h, self.rows, self.cols)
             after1 == { subtract_self_items(new.heap, new.result, self, other, ord) :
                             ord \in Orders(DOMAIN new.heap[self.data]) }
         IN  UNION { { Return(subtract_other_items(h1, new.result, self, other, ord), new.result) :
                           ord \in Orders(DOMAIN h1[other.data]) } : h1 \in after1 }

(***************************************************************************)
(* multiply(other).                                                        *)
(***************************************************************************)
multiply_mismatch(self, other) == self.cols # other.rows

\* A result declared with the dimensions of the left operand.
multiply_result_like_self(h, self, other) == SparseMatrix(h, self.rows, self.cols)

multiply_result(h, self, other) == SparseMatrix(h, self.rows, other.cols)

\* The product written over the cell instead of added to it.
multiply_accumulate_overwrite(h, result, r1, c2, v1, v2) ==
    set_element(h, result, r1, c2, v1 * v2)

multiply_accumulate(h, result, r1, c2, v1, v2) ==
    set_element(h, result, r1, c2, get_element(h, result, r1, c2) + v1 * v2)

\* for c2 in range(other.cols), from c2 on
RECURSIVE multiply_columns(_, _, _, _, _, _, _)
multiply_columns(h, result, other, r1, c1, v1, c2) ==
    IF c2 >= other.cols THEN h
    ELSE LET v2 == get_element(h, other, c1, c2)
         IN  multiply_columns(
                 IF v2 # 0 THEN multiply_accumulate(h, result, r1, c2, v1, v2) ELSE h,
                 result, other, r1, c1, v1, c2 + 1)

RECURSIVE multiply_items(_, _, _, _, _)
multiply_items(h, result, self, other, ord) ==
    IF ord = << >> THEN h
    ELSE LET k == Head(ord)
             v1 == h[self.data][k]
         IN  multiply_items(multiply_columns(h, result, other, k[1], k[2], v1, 0),
                            result, self, other, Tail(ord))

multiply(h, self, other) ==
    IF multiply_mismatch(self, other) THEN { Raise(h) }
    ELSE LET new == multiply_result(h, self, other)
         IN  { Return(multiply_items(new.heap, new.result, self, other, ord), new.result) :
                   ord \in Orders(DOMAIN new.heap[self.data]) }

(***************************************************************************)
(* Text.  A line is a sequence of one-character strings, without its line  *)
(* terminator; a source is the sequence of lines readlines() returns.  The *)
(* only whitespace character of the model's alphabet is the space.         *)
(***************************************************************************)
IsSpace(ch) == ch = " "

RECURSIVE lstrip(_)
lstrip(s) == IF s # << >> /\ IsSpace(Head(s)) THEN lstrip(Tail(s)) ELSE s

RECURSIVE rstrip(_)
rstrip(s) == IF s # << >> /\ IsSpace(s[Len(s)]) THEN rstrip(SubSeq(s, 1, Len(s) - 1)) ELSE s

\* str.strip()
strip(s) == rstrip(lstrip(s))

\* str.split(sep): the fields between the separators, cur being the field in progress
RECURSIVE split_from(_, _, _)
split_from(s, sep, cur) ==
    IF s = << >> THEN << cur >>
    ELSE IF Head(s) = sep
         THEN << cur >> \o split_from(Tail(s), sep, << >>)
         ELSE split_from(Tail(s), sep, Append(cur, Head(s)))

split(s, sep) == split_from(s, sep, << >>)

Digits == {"0", "1", "2", "3", "4", "5", "6", "7", "8", "9"}

DigitValue(ch) ==
    CASE ch = "0" -> 0 [] ch = "1" -> 1 [] ch = "2" -> 2 [] ch = "3" -> 3 [] ch = "4" -> 4
      [] ch = "5" -> 5 [] ch = "6" -> 6 [] ch = "7" -> 7 [] ch = "8" -> 8 [] ch = "9" -> 9

RECURSIVE digits_value(_, _)
digits_value(s, acc) ==
    IF s = << >> THEN acc ELSE digits_value(Tail(s), 10 * acc + DigitValue(Head(s)))

\* int(s) on the model's alphabet: surrounding whitespace is dropped, one sign is
\* allowed, and at least one digit must follow; anything else is a ValueError.
int(s) ==
    LET t == strip(s)
        signed == t # << >> /\ Head(t) \in {"-", "+"}
        body == IF signed THEN Tail(t) ELSE t
    IN  IF body = << >> \/ \E i \in 1..Len(body) : body[i] \notin Digits
        THEN [ok |-> FALSE, val |-> 0]
        ELSE [ok |-> TRUE,
              val |-> IF signed /\ Head(t) = "-" THEN -digits_value(body, 0)
                      ELSE digits_value(body, 0)]

(***************************************************************************)
(* load_from_file.  Every exception inside it (IndexError on a missing     *)
(* line or a missing "=", ValueError of int() or of the format tests) is   *)
(* caught and raised again as ValueError.                                  *)
(***************************************************************************)
LoadError == [raised |-> "ValueError", data |-> EmptyDict, rows |-> 0, cols |-> 0]

\* int(line.strip().split('=')[1])
parse_dimension(line) ==
    LET fields == split(strip(line), "=")
    IN  IF Len(fields) < 2 THEN [ok |-> FALSE, val |-> 0] ELSE int(fields[2])

\* A stripped, non-empty line of the body: [ok, key, val]
parse_triple(line) ==
    IF ~(Head(line) = "(" /\ line[Len(line)] = ")")
    THEN [ok |-> FALSE, key |-> <<0, 0>>, val |-> 0]
    ELSE LET parts == split(SubSeq(line, 2, Len(line) - 1), ",")
         IN  IF Len(parts) # 3
             THEN [ok |-> FALSE, key |-> <<0, 0>>, val |-> 0]
             ELSE LET r == int(parts[1])
                      c == int(parts[2])
                      v == int(parts[3])
                  IN  [ok |-> r.ok /\ c.ok /\ v.ok, key |-> <<r.val, c.val>>, val |-> v.val]

\* for line in lines[2:], from line i on: the dictionary, or a failure
RECURSIVE load_lines(_, _, _)
load_lines(lines, i, data) ==
    IF i > Len(lines) THEN [ok |-> TRUE, data |-> data]
    ELSE LET line == strip(lines[i])
         IN  IF line = << >> THEN load_lines(lines, i + 1, data)
             ELSE LET t == parse_triple(line)
                  IN  IF ~t.ok THEN [ok |-> FALSE, data |-> EmptyDict]
                      ELSE load_lines(lines, i + 1, DictPut(data, t.key, t.val))

load_from_file(lines) ==
    IF Len(lines) < 1 THEN LoadError
    ELSE LET rows == parse_dimension(lines[1])
         IN  IF ~rows.ok \/ Len(lines) < 2 THEN LoadError
             ELSE LET cols == parse_dimension(lines[2])
                      body == load_lines(lines, 3, EmptyDict)
                  IN  IF ~cols.ok \/ ~body.ok THEN LoadError
                      ELSE [raised |-> "none", data |-> body.data,
                            rows |-> rows.val, cols |-> cols.val]

\* SparseMatrix.__init__(matrix_file_path): the loaded dictionary becomes self.data
SparseMatrixFromFile(h, lines) ==
    LET loaded == load_from_file(lines)
    IN  IF loaded.raised # "none" THEN Raise(h)
        ELSE Return(Append(h, loaded.data),
                    [data |-> Len(h) + 1, rows |-> loaded.rows, cols |-> loaded.cols])

(***************************************************************************)
(* The caller's side: what the calls range over.                           *)
(***************************************************************************)
Dims == 1..MaxDim

\* Coordinates passed to set_element: MaxDim lies outside every declared bound.
Index == 0..MaxDim

Values == (-MaxVal)..MaxVal

ArithOps == {"add", "subtract", "multiply"}

NoCall == [op |-> "none", self |-> 0, other |-> 0, row |-> 0, col |-> 0, value |-> 0,
           src |-> << >>, raised |-> "none", result |-> 0]

Made(op, self, other) == [op |-> op, self |-> self, other |-> other]

\* The coordinates inside the declared bounds.
Cells(rows, cols) == (0..(rows - 1)) \X (0..(cols - 1))

\* The dictionaries with at most n entries, keys in S, values in Values: what a
\* text source with those triples loads, a stored zero included.
DictsOver(S, n) == UNION { [K -> Values] : K \in { K \in SUBSET S : Cardinality(K) <= n } }

\* Those with exactly n entries.
DictsOf(S, n) == UNION { [K -> Values] : K \in { K \in SUBSET S : Cardinality(K) = n } }

\* The dictionaries with keys in S whose values are a stored zero or a unit.
UnitDicts(S) == UNION { [K -> {-1, 0, 1}] : K \in SUBSET S }

\* Lines of text sources.
RowsEq2 == <<"r", "o", "w", "s", "=", "2">>
ColsEq2 == <<"c", "o", "l", "s", "=", "2">>
ColsEq1 == <<"c", "o", "l", "s", "=", "1">>
RowsEqX == <<"r", "o", "w", "s", "=", "x">>
Rows2 == <<"r", "o", "w", "s", "2">>
RowsSpaced == <<" ", "r", "o", "w", "s", " ", "=", " ", "2", " ">>
Triple001 == <<"(", "0", ",", "0", ",", "1", ")">>
Triple000 == <<"(", "0", ",", "0", ",", "0", ")">>
Triple01m1 == <<"(", "0", ",", "1", ",", "-", "1", ")">>
Triple12x == <<"(", "1", ",", "2", ",", "x", ")">>
TripleOpen == <<"(", "0", ",", "0", ",", "1">>
TripleTwo == <<"(", "0", ",", "0", ")">>
TripleFour == <<"(", "0", ",", "0", ",", "1", ",", "1", ")">>
TripleSpaced == <<"(", " ", "0", ",", " ", "1", ",", " ", "1", " ", ")">>
Blank == << >>

HeaderLines == {RowsEq2, ColsEq2, ColsEq1, RowsEqX, Rows2, RowsSpaced}

BodyLines == {Triple001, Triple000, Triple01m1, Triple12x, TripleOpen, TripleTwo,
              TripleFour, TripleSpaced, Blank}

\* Sequences over S of length at most n.
SeqsUpTo(S, n) == UNION { [1..k -> S] : k \in 0..n }

\* The drawn sources: no line, one line, or two header lines and a body.
Sources ==
    SeqsUpTo(HeaderLines, 1)
    \cup { <<h1, h2>> \o body : h1 \in HeaderLines, h2 \in HeaderLines,
                                body \in SeqsUpTo(BodyLines, MaxTriples) }

(***************************************************************************)
(* The calls, as actions.  A call that raises leaves the heap and the      *)
(* caller's references as they were; a call that returns an object hands   *)
(* the caller one more reference.                                          *)
(***************************************************************************)
Outcome(call, out) ==
    IF out.raised # "none"
    THEN /\ heap' = out.heap
         /\ mats' = mats
         /\ origin' = origin
         /\ last' = [call EXCEPT !.raised = out.raised, !.result = 0]
    ELSE /\ heap' = out.heap
         /\ mats' = Append(mats, out.result)
         /\ origin' = Append(origin, Made(call.op, call.self, call.other))
         /\ last' = [call EXCEPT !.result = Len(mats) + 1]

Load(src) ==
    Outcome([NoCall EXCEPT !.op = "load", !.src = src], SparseMatrixFromFile(heap, src))

SetElement(m, row, col, value) ==
    /\ heap' = set_element(heap, mats[m], row, col, value)
    /\ last' = [NoCall EXCEPT !.op = "set_element", !.self = m, !.row = row, !.col = col,
                              !.value = value]
    /\ UNCHANGED <<mats, origin>>

Add(a, b) ==
    \E out \in add(heap, mats[a], mats[b]) :
        Outcome([NoCall EXCEPT !.op = "add", !.self = a, !.other = b], out)

Subtract(a, b) ==
    \E out \in subtract(heap, mats[a], mats[b]) :
        Outcome([NoCall EXCEPT !.op = "subtract", !.self = a, !.other = b], out)

Multiply(a, b) ==
    \E out \in multiply(heap, mats[a], mats[b]) :
        Outcome([NoCall EXCEPT !.op = "multiply", !.self = a, !.other = b], out)

\* Two operands in the caller's hands, with the given dimensions and dictionaries.
Operands(ra, ca, da, rb, cb, db) ==
    /\ heap = <<da, db>>
    /\ mats = << [data |-> 1, rows |-> ra, cols |-> ca], [data |-> 2, rows |-> rb, cols |-> cb] >>
    /\ origin = << Made("input", 0, 0), Made("input", 0, 0) >>
    /\ last = NoCall

(***************************************************************************)
(* Spec: two operands, the arithmetic calls on them, and the calls the     *)
(* algebraic laws pair with an addition.  The operands are a pair of any   *)
(* dimensions holding MaxNnz entries between them, or a row vector and a   *)
(* column vector with any of their cells stored, as a zero or a unit, or   *)
(* the two 2 x 2 operands of a worked example.                             *)
(***************************************************************************)
SmallOperands ==
    \E ra \in Dims, ca \in Dims, rb \in Dims, cb \in Dims, na \in 0..MaxNnz :
        \E da \in DictsOf(Cells(ra, ca), na), db \in DictsOver(Cells(rb, cb), MaxNnz - na) :
            Operands(ra, ca, da, rb, cb, db)

VectorOperands ==
    \E n \in 1..MaxInner :
        \E da \in UnitDicts(Cells(1, n)), db \in UnitDicts(Cells(n, 1)) :
            Operands(1, n, da, n, 1, db)

\* The 2 x 2 operands A = {(0,0): 1, (1,1): 2} and B = {(0,0): 3, (0,1): 4}.
ExampleOperands ==
    Operands(2, 2, [k \in {<<0, 0>>, <<1, 1>>} |-> IF k = <<0, 0>> THEN 1 ELSE 2],
             2, 2, [k \in {<<0, 0>>, <<0, 1>>} |-> IF k = <<0, 0>> THEN 3 ELSE 4])

Init == SmallOperands \/ VectorOperands \/ ExampleOperands

FirstCall == Len(mats) = 2 /\ last.op = "none"

AfterAdd == Len(mats) = 3 /\ last.op = "add" /\ last.raised = "none"

Next ==
    \/ FirstCall /\ Add(1, 2)
    \/ FirstCall /\ Subtract(1, 2)
    \/ FirstCall /\ Multiply(1, 2)
    \/ AfterAdd /\ Add(2, 1)
    \/ AfterAdd /\ Subtract(3, 2)

Spec == Init /\ [][Next]_vars

(***************************************************************************)
(* SpecFrame: two operands of one shape, one arithmetic call on any pair   *)
(* of them (an operand with itself included), then one set_element call on *)
(* any of the three objects.                                               *)
(***************************************************************************)
\* The stored coordinates of an operand: inside its bounds, or just outside them.
OperandCells(rows, cols) == Cells(rows, cols) \cup { <<rows, cols>> }

FrameInit ==
    \E r \in Dims, c \in Dims, na \in 0..MaxHeld :
        \E da \in DictsOf(OperandCells(r, c), na),
           db \in DictsOver(OperandCells(r, c), MaxHeld - na) :
            Operands(r, c, da, r, c, db)

FrameNext ==
    \/ FirstCall /\ \E a \in 1..2, b \in 1..2 : Add(a, b)
    \/ FirstCall /\ \E a \in 1..2, b \in 1..2 : Subtract(a, b)
    \/ FirstCall /\ \E a \in 1..2, b \in 1..2 : Multiply(a, b)
    \/ /\ Len(mats) = 3
       /\ last.op \in ArithOps
       /\ \E m \in 1..3, v \in Values :
              \E k \in OperandCells(mats[m].rows, mats[m].cols) : SetElement(m, k[1], k[2], v)

SpecFrame == FrameInit /\ [][FrameNext]_vars

(***************************************************************************)
(* SpecSet: one object, one set_element call at any coordinate.            *)
(***************************************************************************)
SetInit ==
    \E r \in Dims, c \in Dims :
        \E d \in DictsOver(Index \X Index, MaxHeld) :
            /\ heap = <<d>>
            /\ mats = << [data |-> 1, rows |-> r, cols |-> c] >>
            /\ origin = << Made("input", 0, 0) >>
            /\ last = NoCall

SetNext ==
    last.op = "none" /\ \E r \in Index, c \in Index, v \in Values : SetElement(1, r, c, v)

SpecSet == SetInit /\ [][SetNext]_vars

(***************************************************************************)
(* SpecLoad: one construction from a drawn text source.                    *)
(***************************************************************************)
LoadInit ==
    /\ heap = << >>
    /\ mats = << >>
    /\ origin = << >>
    /\ last = NoCall

LoadNext == last.op = "none" /\ \E src \in Sources : Load(src)

SpecLoad == LoadInit /\ [][LoadNext]_vars

(***************************************************************************)
(* What the claims are stated with.                                        *)
(***************************************************************************)
Dict(i) == heap[mats[i].data]

\* The coordinates an element-wise comparison looks at: every stored one, and
\* every one of Index \X Index, which reaches outside every declared bound.
Probes == (Index \X Index) \cup UNION { DOMAIN heap[i] : i \in 1..Len(heap) }

Get(i, k) == get_element(heap, mats[i], k[1], k[2])

InBounds(i) ==
    \A k \in DOMAIN Dict(i) : k[1] \in 0..(mats[i].rows - 1) /\ k[2] \in 0..(mats[i].cols - 1)

Returned == last.op \in ArithOps /\ last.raised = "none"

\* sum of A[r][k] * B[k][c] for k in 0..n-1, A and B being objects i and j
RECURSIVE DotProduct(_, _, _, _, _)
DotProduct(i, j, r, c, n) ==
    IF n = 0 THEN 0
    ELSE DotProduct(i, j, r, c, n - 1) + Get(i, <<r, n - 1>>) * Get(j, <<n - 1, c>>)

Term(r, c, k) == Get(1, <<r, k>>) * Get(2, <<k, c>>)

\* C1: no entry of any object's mapping holds the value 0, whatever sequence of
\* constructions and calls made the object; a matrix constructed from a source
\* holding a zero-valued triple included.
C1_NoStoredZero ==
    \A i \in 1..Len(mats) : \A k \in DOMAIN Dict(i) : Dict(i)[k] # 0

\* C2: after set_element(r, c, v), get_element(r, c) returns v, and when v = 0 the
\* coordinate is absent from the mapping; at any coordinate, inside the declared
\* bounds or outside them, present before the call or not.
C2_SetThenGet ==
    last.op = "set_element" =>
        /\ get_element(heap, mats[last.self], last.row, last.col) = last.value
        /\ last.value = 0 => <<last.row, last.col>> \notin DOMAIN Dict(last.self)

C2_Witness ==
    /\ last.op = "set_element"
    /\ last.value = 0
    /\ last.row >= mats[1].rows
    /\ Dict(1) # EmptyDict

\* C3: for operands A and B of equal dimensions, A.add(B) and B.add(A) have the
\* same dimensions and the same element at every coordinate.
C3_AddCommutes ==
    (Len(mats) = 4 /\ origin[3] = Made("add", 1, 2) /\ origin[4] = Made("add", 2, 1)) =>
        /\ mats[3].rows = mats[4].rows
        /\ mats[3].cols = mats[4].cols
        /\ \A k \in Probes : Get(3, k) = Get(4, k)

C3_Witness ==
    /\ Len(mats) = 4
    /\ origin[4] = Made("add", 2, 1)
    /\ \E k \in DOMAIN Dict(1) \cap DOMAIN Dict(2) : Get(3, k) # 0
    /\ Dict(1) # Dict(2)

\* C4: for operands A and B of equal dimensions, A.add(B).subtract(B) has the
\* element of A at every coordinate, also where A and B cancel in A.add(B) and the
\* sum stores nothing.
C4_AddThenSubtract ==
    (Len(mats) = 4 /\ origin[3] = Made("add", 1, 2) /\ origin[4] = Made("subtract", 3, 2)) =>
        \A k \in Probes : Get(4, k) = Get(1, k)

C4_Witness ==
    /\ Len(mats) = 4
    /\ origin[4] = Made("subtract", 3, 2)
    /\ \E k \in DOMAIN Dict(1) : Dict(1)[k] # 0 /\ k \notin DOMAIN Dict(3)

\* C5: A (m x n) times B (n x p) returns a matrix of m rows and p columns; when
\* the column count of A differs from the row count of B, multiply raises the
\* dimension error and returns no matrix.
C5_MultiplyDimensions ==
    last.op = "multiply" =>
        IF mats[last.self].cols = mats[last.other].rows
        THEN /\ last.raised = "none"
             /\ last.result = Len(mats)
             /\ mats[last.result].rows = mats[last.self].rows
             /\ mats[last.result].cols = mats[last.other].cols
        ELSE /\ last.raised = "ValueError"
             /\ last.result = 0
             /\ Len(mats) = 2

C5_Witness ==
    /\ last.op = "multiply"
    /\ last.raised = "none"
    /\ mats[3].rows # mats[3].cols
    /\ mats[1].cols # mats[3].cols
    /\ Dict(3) # EmptyDict

\* C6: when the operands differ in row count or in column count, add and subtract
\* raise the dimension error, return no matrix, and leave the mappings and the
\* dimensions of both operands as they were.
C6_MismatchLeavesOperands ==
    [][ ( /\ last'.op \in {"add", "subtract"}
          /\ \/ mats[last'.self].rows # mats[last'.other].rows
             \/ mats[last'.self].cols # mats[last'.other].cols )
        => ( /\ last'.raised = "ValueError"
             /\ last'.result = 0
             /\ mats' = mats
             /\ heap' = heap ) ]_vars

C6_Witness ==
    /\ last.op \in {"add", "subtract"}
    /\ last.raised = "ValueError"
    /\ mats[1].rows = mats[2].rows
    /\ Dict(1) # EmptyDict
    /\ Dict(2) # EmptyDict

\* The line is the key followed by an integer token.
HasKey(line, key) ==
    /\ Len(line) > Len(key)
    /\ SubSeq(line, 1, Len(key)) = key
    /\ int(SubSeq(line, Len(key) + 1, Len(line))).ok

\* The source has the shape the format section describes.
WellFormed(src) ==
    /\ Len(src) >= 2
    /\ HasKey(strip(src[1]), <<"r", "o", "w", "s", "=">>)
    /\ HasKey(strip(src[2]), <<"c", "o", "l", "s", "=">>)
    /\ \A i \in 3..Len(src) : strip(src[i]) # << >> => parse_triple(strip(src[i])).ok

\* C7: construction from a source succeeds only when line 1 is `rows=` followed by
\* an integer, line 2 is `cols=` followed by an integer, and every later non-blank
\* line is a parenthesised triple of three integer tokens; every other source
\* raises the format error.
C7_LoadsOnlyWellFormed ==
    last.op = "load" => (last.raised = "none" <=> WellFormed(last.src))

\* C8: for operands whose stored coordinates lie inside their bounds, the result
\* of A.multiply(B) holds at every coordinate (r, c) the sum over k of
\* A[r][k] * B[k][c], in whatever order the entries of A are visited, also when
\* the running sum of a cell passes through zero.
C8_MultiplyIsProduct ==
    (last.op = "multiply" /\ last.raised = "none" /\ InBounds(1) /\ InBounds(2)) =>
        \A k \in Probes : Get(3, k) = DotProduct(1, 2, k[1], k[2], mats[1].cols)

C8_Witness ==
    /\ last.op = "multiply"
    /\ last.raised = "none"
    /\ mats[1].cols = 3
    /\ \E r \in 0..(mats[1].rows - 1), c \in 0..(mats[2].cols - 1) :
           \E k1 \in 0..2, k2 \in 0..2, k3 \in 0..2 :
               /\ {k1, k2, k3} = 0..2
               /\ Term(r, c, k1) # 0
               /\ Term(r, c, k1) + Term(r, c, k2) = 0
               /\ Term(r, c, k3) # 0
               /\ Get(3, <<r, c>>) = Term(r, c, k3)

\* C9: add, subtract and multiply return a fresh object and leave the mappings
\* and dimensions of their operands as they were, also when self and other are
\* one object; afterwards a set_element on one object (the result, an operand)
\* changes no other object.
C9_OperandsReadOnly ==
    [][ /\ (last'.op \in ArithOps /\ last'.raised = "none" /\ Len(mats') = Len(mats) + 1) =>
               /\ \A i \in 1..Len(mats) :
                      /\ mats'[i] = mats[i]
                      /\ heap'[mats[i].data] = heap[mats[i].data]
                      /\ mats'[Len(mats')].data # mats[i].data
        /\ (last'.op = "set_element") =>
               /\ mats' = mats
               /\ \A i \in 1..Len(mats) :
                      i # last'.self => heap'[mats[i].data] = heap[mats[i].data] ]_vars

C9_Witness ==
    /\ last.op = "set_element"
    /\ last.self = 3
    /\ origin[3].self = origin[3].other
    /\ Dict(3) # Dict(1)
    /\ Dict(1) # EmptyDict

\* C10: the matrix returned by add, subtract or multiply stores no zero, also when
\* an operand stores one: a zero sum, a zero difference, a negated stored zero and
\* a product sum that reaches zero leave the coordinate absent.
C10_ResultStoresNoZero ==
    Returned => \A k \in DOMAIN Dict(last.result) : Dict(last.result)[k] # 0

C10_Witness ==
    /\ last.op = "subtract"
    /\ last.raised = "none"
    /\ \E k \in DOMAIN Dict(2) : Dict(2)[k] = 0 /\ k \notin DOMAIN Dict(1)
    /\ Dict(3) # EmptyDict

====
